---------------------------- MODULE Spec2Model ----------------------------
(***************************************************************************)
(* Model of tqdm::ProgressBar and tqdm::Chronometer (src/src/tqdm.h).      *)
(*                                                                         *)
(* Time is the steady clock read in ticks of 0.1 s; a call is              *)
(* instantaneous at that resolution, and time passes between calls (Tick). *)
(* An unsigned int is a pair <<hi, lo>> of 16-bit limbs, so that the       *)
(* arithmetic of update() keeps its 32-bit width.                          *)
(* The double arithmetic of update_display()/print_bar() is computed on    *)
(* the exact quotient current_step_/total_steps_; on the bounded domain    *)
(* used here (total_steps_ <= 12, bar_size_ <= 42) the IEEE-754 results of *)
(* the source's expressions coincide with the exact ones.                  *)
(***************************************************************************)
EXTENDS Integers, Sequences, FiniteSets, TLC

\* ------------------------------------------------------------------ bounds
MaxTotal == 7      \* largest total_steps the constructor is given
MaxTime  == 3      \* the clock stops advancing at this tick
MaxStep  == 1      \* small step arguments 0..MaxStep
MaxWrap  == 1      \* large step arguments 2^32-1 .. 2^32-MaxWrap

\* --------------------------------------------------------- unsigned int
Limb == 65536

U32(n) == <<n \div Limb, n % Limb>>

ToNat(u) == u[1] * Limb + u[2]

Add32(a, b) ==
  LET lo == a[2] + b[2]
  IN  <<(a[1] + b[1] + (lo \div Limb)) % Limb, lo % Limb>>

Sub32(a, b) ==
  LET lo == a[2] - b[2]
      borrow == IF lo < 0 THEN 1 ELSE 0
  IN  <<(a[1] - b[1] - borrow) % Limb, lo % Limb>>

Gt32(a, b) == a[1] > b[1] \/ (a[1] = b[1] /\ a[2] > b[2])

Min(a, b) == IF a < b THEN a ELSE b

\* ------------------------------------------------------- input domains
\* total_steps_ = 0 makes update_display() divide by zero and is left out
TotalChoices == {1, MaxTotal}

StepChoices ==
  {U32(k) : k \in 0..MaxStep} \cup {<<Limb - 1, Limb - k>> : k \in 1..MaxWrap}

MinDefault == 1
MinTimeChoices == {0, MinDefault, 2}

BarDefault == 40
BarChoices == {10, BarDefault}

PrefixChoices == {"", "job"}
SinkChoices == {"cerr", "alt"}

\* ------------------------------------------------------------- the state
VARIABLES
  clock,                 \* std::chrono::steady_clock::now(), in ticks
  chronometer_,          \* start_ of the total-elapsed Chronometer
  refresh_,              \* start_ of the refresh Chronometer
  min_time_per_update_,
  os_,
  prefix_,
  bar_size_,
  current_step_,
  total_steps_,
  out,                   \* the line the most recent call wrote, or NoLine
  sum,                   \* sum of all elapsed_steps passed to update(), capped
  last,                  \* the most recent event
  prev                   \* the event before it, when it was the same kind of call

vars == <<clock, chronometer_, refresh_, min_time_per_update_, os_, prefix_,
          bar_size_, current_step_, total_steps_, out, sum, last, prev>>

cfg == <<min_time_per_update_, os_, prefix_, bar_size_>>

\* ------------------------------------------------------------ Chronometer
elapsed_seconds(from, to) == to - from

peek(start) == elapsed_seconds(start, clock)

\* ------------------------------------------------------------ rendering
FULL == "\\u2588"

get_fill_value(idx) ==
  CASE idx = 0 -> "\\u258F"
    [] idx = 1 -> "\\u258E"
    [] idx = 2 -> "\\u258D"
    [] idx = 3 -> "\\u258C"
    [] idx = 4 -> "\\u258B"
    [] idx = 5 -> "\\u258A"
    [] idx = 6 -> "\\u2589"
    [] OTHER   -> FULL

\* std::round(k/n * w): nearest integer, halves away from zero
RoundMul(k, n, w) == (2 * k * w + n) \div (2 * n)

\* static_cast<int>(k/n * m) and std::floor(k/n * m)
FloorMul(k, n, m) == (k * m) \div n

\* last_fill_idx without the std::min(..., 6)
last_fill_idx_Unclamped(k, n) ==
  FloorMul(k, n, 100) - FloorMul(k, n, 10) * 10

last_fill_idx(k, n) == Min(FloorMul(k, n, 100) - FloorMul(k, n, 10) * 10, 6)

Repeat(g, c) == [i \in 1..c |-> g]

print_bar(k, n, size) ==
  LET num_filled == RoundMul(k, n, size)
      pad == IF num_filled + 1 < size THEN size - (num_filled + 1) ELSE 0
  IN  <<"|">> \o Repeat(FULL, num_filled)
             \o <<get_fill_value(last_fill_idx(k, n))>>
             \o Repeat(" ", pad) \o <<"|">>

\* progress * 100 printed with std::fixed, std::setprecision(1): tenths of a
\* percent, rounded to nearest, exact halves to even
Percent(k, n) ==
  LET q == (1000 * k) \div n
      r == (1000 * k) % n
  IN  IF 2 * r > n \/ (2 * r = n /\ q % 2 = 1) THEN q + 1 ELSE q

\* eta = t / progress - t
Eta(t, k, n) ==
  IF k = 0
    THEN [kind |-> IF t = 0 THEN "nan" ELSE "inf", num |-> 0, den |-> 1]
    ELSE [kind |-> "finite", num |-> t * (n - k), den |-> k]

update_display(k, n) ==
  LET t == peek(chronometer_)
  IN  [os |-> os_, prefix |-> prefix_, pct |-> Percent(k, n),
       bar |-> print_bar(k, n, bar_size_), t |-> t, eta |-> Eta(t, k, n)]

NoLine == [os |-> "none", prefix |-> "", pct |-> 0, bar |-> <<>>, t |-> 0,
           eta |-> [kind |-> "nan", num |-> 0, den |-> 1]]

\* ---------------------------------------------------------------- events
Event(op, steps, force, since, painted, ret) ==
  [op |-> op, steps |-> steps, force |-> force, since |-> since,
   painted |-> painted, ret |-> ret]

Plain(op) == Event(op, U32(0), FALSE, 0, 0, 0)

\* what prev becomes when event e follows last
Before(e) ==
  IF last.op = e.op /\ last.force = e.force THEN last ELSE Plain("none")

\* ------------------------------------------------------------------ Init
Init ==
  /\ clock = 0
  /\ chronometer_ = 0
  /\ refresh_ = 0
  /\ min_time_per_update_ = MinDefault
  /\ os_ = "cerr"
  /\ prefix_ = ""
  /\ bar_size_ = BarDefault
  /\ current_step_ = U32(0)
  /\ total_steps_ \in {U32(n) : n \in TotalChoices}
  /\ out = NoLine
  /\ sum = 0
  /\ last = Plain("ProgressBar")
  /\ prev = Plain("none")

\* --------------------------------------------------------------- actions
Tick ==
  /\ clock < MaxTime
  /\ clock' = clock + 1
  /\ last' = Plain("tick")
  /\ prev' = Plain("none")
  /\ out' = NoLine
  /\ UNCHANGED <<chronometer_, refresh_, cfg, current_step_, total_steps_,
                 sum>>

SumCap == MaxTotal + 1

SumAdd(s, steps) ==
  IF steps[1] > 0 \/ s + steps[2] > SumCap THEN SumCap ELSE s + steps[2]

\* update() adding the steps without the comparison against total_steps_
NextStep_NoClamp(cur, steps, total) == Add32(cur, steps)

\* the step count update() stores
NextStep(cur, steps, total) ==
  IF Gt32(Add32(cur, steps), total) THEN total ELSE Add32(cur, steps)

\* the throttle test with >= in place of >
ShouldRefresh_AtLeast(since, force) == since >= min_time_per_update_ \/ force

\* the throttle test without "|| force"
ShouldRefresh_IgnoreForce(since, force) == since > min_time_per_update_

\* whether update() repaints
ShouldRefresh(since, force) == since > min_time_per_update_ \/ force

update(op, elapsed_steps, force) ==
  LET step  == NextStep(current_step_, elapsed_steps, total_steps_)
      since == peek(refresh_)
      paint == ShouldRefresh(since, force)
  IN  /\ current_step_' = step
      /\ sum' = SumAdd(sum, elapsed_steps)
      /\ IF paint
           THEN /\ refresh_' = clock
                /\ out' = update_display(ToNat(step), ToNat(total_steps_))
           ELSE /\ out' = NoLine
                /\ UNCHANGED refresh_
      /\ last' = Event(op, elapsed_steps, force, since,
                       IF paint THEN 1 ELSE 0, 0)
      /\ prev' = Before(last')
      /\ UNCHANGED <<clock, chronometer_, cfg, total_steps_>>

Update == \E s \in StepChoices, f \in BOOLEAN : update("update", s, f)

UpdateDefault == update("update", U32(1), FALSE)

\* fill() passing the remaining steps without force
fill_Unforced == update("fill", Sub32(total_steps_, current_step_), FALSE)

fill == update("fill", Sub32(total_steps_, current_step_), TRUE)

\* restart() resetting only the total-elapsed stopwatch
restart_TotalOnly ==
  /\ chronometer_' = clock
  /\ last' = Plain("restart")
  /\ prev' = Before(last')
  /\ out' = NoLine
  /\ UNCHANGED <<clock, refresh_, cfg, current_step_, total_steps_, sum>>

restart ==
  /\ chronometer_' = clock
  /\ refresh_' = clock
  /\ last' = Plain("restart")
  /\ prev' = Before(last')
  /\ out' = NoLine
  /\ UNCHANGED <<clock, cfg, current_step_, total_steps_, sum>>

set_ostream ==
  /\ \E os \in SinkChoices : os_' = os
  /\ last' = Plain("set_ostream")
  /\ prev' = Before(last')
  /\ out' = NoLine
  /\ UNCHANGED <<clock, chronometer_, refresh_, min_time_per_update_, prefix_,
                 bar_size_, current_step_, total_steps_, sum>>

set_prefix ==
  /\ \E s \in PrefixChoices : prefix_' = s
  /\ last' = Plain("set_prefix")
  /\ prev' = Before(last')
  /\ out' = NoLine
  /\ UNCHANGED <<clock, chronometer_, refresh_, min_time_per_update_, os_,
                 bar_size_, current_step_, total_steps_, sum>>

set_bar_size ==
  /\ \E size \in BarChoices : bar_size_' = size
  /\ last' = Plain("set_bar_size")
  /\ prev' = Before(last')
  /\ out' = NoLine
  /\ UNCHANGED <<clock, chronometer_, refresh_, min_time_per_update_, os_,
                 prefix_, current_step_, total_steps_, sum>>

set_min_update_time ==
  /\ \E time \in MinTimeChoices : min_time_per_update_' = time
  /\ last' = Plain("set_min_update_time")
  /\ prev' = Before(last')
  /\ out' = NoLine
  /\ UNCHANGED <<clock, chronometer_, refresh_, os_, prefix_, bar_size_,
                 current_step_, total_steps_, sum>>

elapsed_time ==
  /\ last' = Event("elapsed_time", U32(0), FALSE, 0, 0, peek(chronometer_))
  /\ prev' = Before(last')
  /\ out' = NoLine
  /\ UNCHANGED <<clock, chronometer_, refresh_, cfg, current_step_,
                 total_steps_, sum>>

Next ==
  \/ Tick
  \/ Update
  \/ UpdateDefault
  \/ fill
  \/ restart
  \/ set_ostream
  \/ set_prefix
  \/ set_bar_size
  \/ set_min_update_time
  \/ elapsed_time

Spec == Init /\ [][Next]_vars

TypeOK ==
  /\ clock \in 0..MaxTime
  /\ chronometer_ \in 0..clock
  /\ refresh_ \in 0..clock
  /\ sum \in 0..SumCap
  /\ last.painted \in {0, 1}
  /\ (last.painted = 1) <=> (out # NoLine)

\* ------------------------------------------------------ shorthand
Cur == ToNat(current_step_)
Total == ToNat(total_steps_)
Interior(bar) == SubSeq(bar, 2, Len(bar) - 1)
Gradation ==
  <<"\\u258F", "\\u258E", "\\u258D", "\\u258C", "\\u258B", "\\u258A", "\\u2589">>
Advance(e) == e.op = "update"
AllOnes == <<Limb - 1, Limb - 1>>

\* ------------------------------------------------------------------ C1
\* C1: after any sequence of advance calls whose steps sum (unbounded) to S,
\* current_step equals min(S, total_steps).
C1_SumClamped == Cur = Min(sum, Total)

\* ------------------------------------------------------------------ C2
\* C2: in every reachable state 0 <= current_step <= total_steps.
C2_StepInRange ==
  /\ current_step_ \in {U32(k) : k \in 0..Total}
  /\ ~Gt32(current_step_, total_steps_)

\* a single advance from 0 asking for 2^32-1 steps was clamped to total_steps
C2_Witness ==
  /\ Advance(last)
  /\ last.steps = AllOnes
  /\ current_step_ = total_steps_
  /\ Total = MaxTotal

\* ------------------------------------------------------------------ C3
\* C3: complete() ends with current_step == total_steps and one repaint that
\* shows 100.0%, whatever the throttle timer; a second complete() right after
\* it does the same.
C3_FillCompletes ==
  /\ last.op = "fill" =>
       /\ current_step_ = total_steps_
       /\ last.painted = 1
       /\ out # NoLine
       /\ out.pct = 1000
  /\ (last.op = "fill" /\ prev.op = "fill") =>
       /\ prev.painted = 1
       /\ last.steps = U32(0)

\* complete() twice in a row with no time between, inside the throttle window
C3_Witness ==
  /\ last.op = "fill"
  /\ prev.op = "fill"
  /\ last.since = 0
  /\ min_time_per_update_ = 2
  /\ last.painted = 1

\* ------------------------------------------------------------------ C4
\* two advance(1) calls with force = false, nothing between them, at the
\* default interval
BackToBack ==
  /\ Advance(last) /\ Advance(prev)
  /\ last.steps = U32(1) /\ prev.steps = U32(1)
  /\ ~last.force /\ ~prev.force
  /\ min_time_per_update_ = MinDefault

\* C4 as stated: with no time passing before or between the two calls, the
\* first repaints and the second is suppressed.
C4_Original ==
  (BackToBack /\ prev.since = 0) => (prev.painted = 1 /\ last.painted = 0)

\* C4 amended: the second call never repaints, and the first repaints exactly
\* when more than the interval has passed since the refresh stopwatch started;
\* so with no time before them, neither repaints.
C4_AtMostOne ==
  BackToBack =>
    /\ last.painted = 0
    /\ (prev.painted = 1) <=> (prev.since > MinDefault)
    /\ (prev.since = 0) => (prev.painted + last.painted = 0)

C4_Witness == BackToBack /\ prev.since = 0 /\ prev.painted = 0 /\ last.painted = 0

\* ------------------------------------------------------------------ C5
\* C5: on every repaint the bar interior is full blocks, one gradation glyph,
\* then spaces, and is exactly bar_width glyphs long.
C5_BarWidth ==
  out # NoLine =>
    LET I == Interior(out.bar)
    IN  /\ Len(I) = bar_size_
        /\ \E f \in 0..(Len(I) - 1) :
             /\ \A i \in 1..f : I[i] = FULL
             /\ I[f + 1] \in {Gradation[j] : j \in 1..7} \cup {FULL}
             /\ \A i \in (f + 2)..Len(I) : I[i] = " "

\* ------------------------------------------------------------------ C6
\* C6: a repaint at current_step == total_steps shows 100.0% and a bar of
\* exactly bar_width full-block glyphs, without padding.
C6_FullBar ==
  (out # NoLine /\ current_step_ = total_steps_) =>
    /\ out.pct = 1000
    /\ Interior(out.bar) = Repeat(FULL, bar_size_)

\* ------------------------------------------------------------------ C7
\* C7: restart() sets both stopwatches' start to now (elapsed_time() is 0
\* right after), writes nothing, and leaves current_step, total_steps and the
\* configuration unchanged.
C7_RestartFrame ==
  [][last'.op = "restart" =>
       /\ chronometer_' = clock'
       /\ refresh_' = clock'
       /\ clock' - chronometer_' = 0
       /\ out' = NoLine
       /\ last'.painted = 0
       /\ UNCHANGED <<current_step_, total_steps_, bar_size_,
                      min_time_per_update_, prefix_, os_>>]_vars

\* restart() after time has passed, with progress made and settings changed
C7_Witness ==
  /\ last.op = "restart"
  /\ clock = MaxTime
  /\ chronometer_ = clock
  /\ refresh_ = clock
  /\ Cur > 0
  /\ prefix_ = "job"
  /\ os_ = "alt"

\* ------------------------------------------------------------------ C8
\* C8: an advance repaints iff force is set or more than the interval has
\* passed since the refresh stopwatch started, and it restarts that stopwatch
\* exactly when it repaints.
C8_Throttle ==
  [][Advance(last') =>
       LET since == clock - refresh_
           paint == last'.painted = 1
       IN  /\ paint <=> (last'.force \/ since > min_time_per_update_)
           /\ paint => (refresh_' = clock' /\ out' # NoLine)
           /\ ~paint => (refresh_' = refresh_ /\ out' = NoLine)
           /\ (paint /\ ~last'.force) => clock' - refresh_ > min_time_per_update_
           /\ last'.since = since]_vars

\* an unforced advance(0) that repainted at the default interval
C8_Witness ==
  /\ Advance(last)
  /\ last.steps = U32(0)
  /\ ~last.force
  /\ last.painted = 1
  /\ min_time_per_update_ = MinDefault
  /\ last.since = MinDefault + 1

\* ------------------------------------------------------------------ C9
\* C9: on every repaint the gradation glyph is the one of index
\* min(floor(100*progress) mod 10, 6); the full block is never the gradation
\* glyph.
C9_GradationIndex ==
  out # NoLine =>
    LET I == Interior(out.bar)
        pos == CHOOSE i \in 1..(Len(I) + 1) :
                 /\ i = Len(I) + 1 \/ I[i] # FULL
                 /\ \A j \in 1..(i - 1) : I[j] = FULL
        idx == Min(((100 * Cur) \div Total) % 10, 6)
    IN  /\ pos <= Len(I)
        /\ idx \in 0..6
        /\ I[pos] = Gradation[idx + 1]

\* a repaint where the clamp to 6 is what picks the glyph
C9_Witness ==
  /\ out # NoLine
  /\ ((100 * Cur) \div Total) % 10 > 6

\* ----------------------------------------------------------------- C10
\* C10: no operation makes current_step smaller, and once it equals
\* total_steps it stays there.
C10_Monotonic ==
  [][/\ ~Gt32(current_step_, current_step_')
     /\ (current_step_ = total_steps_) => (current_step_' = total_steps_)]_vars
=============================================================================
